---- MODULE Spec2Model ----
(***************************************************************************)
(* Model of the SPI command/response responder of tbd-usb-msc              *)
(* (src/main/spi_api.c): the api_task dispatch loop, the chunked sender    *)
(* transmitCString, the boot-slot handlers and the handshake callbacks of  *)
(* the SPI slave driver.                                                   *)
(* Further sections model the co-processor update from the SD card        *)
(* (src/main/ota_c6_sdcard.c) and the sector read/write wrappers          *)
(* (src/main/custom_sdmmc_cmd.c).                                          *)
(***************************************************************************)
EXTENDS Integers, Sequences, FiniteSets, TLC

(* ---------------------------------------------------------------------- *)
(* Program constants                                                       *)
(* ---------------------------------------------------------------------- *)
\* transaction capacity in bytes (transaction.length = 2048 * 8 bits)
C == 2048
\* bytes of frame header: sync (2), request type (1), length (4)
HeaderLen == 7
\* sync marker 0xCA 0xFE
Sync0 == 202
Sync1 == 254
\* RequestType
Reboot == 19
GetFirmwareInfo == 25
RebootToOTAX == 34
\* esp_partition_subtype_t of application partitions, as esp_partition.h gives
\* them: OTA_MAX is OTA_MIN + 16, the value of the test application subtype
ESP_PARTITION_SUBTYPE_APP_OTA_MIN == 16
ESP_PARTITION_SUBTYPE_APP_OTA_MAX == 32
ESP_PARTITION_SUBTYPE_APP_OTA_0 == 16
ESP_PARTITION_SUBTYPE_APP_OTA_1 == 17
\* sizeof(label) in esp_get_current_ota_label
LabelSize == 8

(* ---------------------------------------------------------------------- *)
(* Bounds of the model                                                     *)
(* ---------------------------------------------------------------------- *)
\* largest number of application partitions in a partition table
MaxParts == 3
\* payloads given to the chunked sender alone span up to MaxChunks full chunks
MaxChunks == 2

\* application partition subtypes occurring in the modelled tables:
\* factory, ota_0, ota_1, ota_2, test
Subtypes == {0, 16, 17, 18, 32}

\* partition tables: enumeration order of the app partitions, no subtype twice
Tables ==
  UNION {{t \in [1..n -> Subtypes] : \A i, j \in 1..n : i # j => t[i] # t[j]}
         : n \in 1..MaxParts}

\* bytes the controller may clock in at offsets 0..3 of a frame
CmdBytes == {19, 25, 34, 0}
ArgBytes == {0, 1, 2, 255}
\* bit counts a completed exchange may report in trans_len
TransLens == {16384, 64}

\* the frames the controller sends: every sync pattern with at most one byte wrong,
\* every command; the argument byte varies in full for RebootToOTAX
RxFrames ==
  {f \in [b0 : {202, 0}, b1 : {254, 0}, b2 : CmdBytes, b3 : ArgBytes] :
     /\ f.b0 = 202 \/ f.b1 = 254
     /\ f.b2 = 34 \/ f.b3 \in {0, 255}}

\* the receive buffer before the first exchange (not read until one completes)
NoFrame == [b0 |-> 0, b1 |-> 0, b2 |-> 0, b3 |-> 0]

\* position of "no next-boot target written by this program"
NoTarget == 0

Min(a, b) == IF a < b THEN a ELSE b

(* ---------------------------------------------------------------------- *)
(* Helpers of spi_api.c                                                    *)
(* ---------------------------------------------------------------------- *)
\* the range test of lines 43-44 on the running partition
IsOtaSubtype(st) ==
  st >= ESP_PARTITION_SUBTYPE_APP_OTA_MIN /\ st <= ESP_PARTITION_SUBTYPE_APP_OTA_MAX

CountsAsOta_any(st) == st <= ESP_PARTITION_SUBTYPE_APP_OTA_MAX

\* the range test of lines 60-61 on an enumerated partition
CountsAsOta(st) ==
  st >= ESP_PARTITION_SUBTYPE_APP_OTA_MIN /\ st <= ESP_PARTITION_SUBTYPE_APP_OTA_MAX

\* count_bootable_ota_partitions: walk the iterator, count the OTA subtypes
RECURSIVE CountFrom(_, _, _)
CountFrom(t, i, count) ==
  IF i > Len(t) THEN count
  ELSE CountFrom(t, i + 1, IF CountsAsOta(t[i]) THEN count + 1 ELSE count)

count_bootable_ota_partitions(t) == CountFrom(t, 1, 0)

\* esp_partition_find_first(APP, st, NULL): position of the first partition of
\* subtype st in enumeration order, 0 for NULL
esp_partition_find_first(t, st) ==
  IF \E i \in 1..Len(t) : t[i] = st
  THEN CHOOSE i \in 1..Len(t) : t[i] = st /\ \A j \in 1..(i - 1) : t[j] # st
  ELSE 0

\* the subtype boot_into_slot looks for (lines 27-29)
SlotSubtype_arith(slot) == ESP_PARTITION_SUBTYPE_APP_OTA_0 + slot

SlotSubtype(slot) ==
  IF slot = 0 THEN ESP_PARTITION_SUBTYPE_APP_OTA_0 ELSE ESP_PARTITION_SUBTYPE_APP_OTA_1

\* decimal digits of n, as snprintf("%d") writes them
RECURSIVE Digits(_)
Digits(n) ==
  IF n < 10 THEN <<(<<"0", "1", "2", "3", "4", "5", "6", "7", "8", "9">>)[n + 1]>>
  ELSE Digits(n \div 10) \o Digits(n % 10)

\* snprintf(label, sizeof(label), ...): at most sizeof(label) - 1 characters
Snprintf(size, s) == SubSeq(s, 1, Min(Len(s), size - 1))

\* esp_get_current_ota_label for a running partition of subtype st
esp_get_current_ota_label(st) ==
  IF IsOtaSubtype(st)
  THEN Snprintf(LabelSize, <<"o", "t", "a">> \o Digits(st - ESP_PARTITION_SUBTYPE_APP_OTA_MIN))
  ELSE <<"f", "a", "c", "t", "o", "r", "y">>

\* the initializer of info[1024] (line 128)
InfoPrefix ==
  <<"{", "\"", "H", "W", "V", "\"", ":", " ", "\"", "D", "A", "D", "A", "\"", ",", " ",
    "\"", "F", "W", "V", "\"", ":", " ", "\"", "t", "u", "s", "b", "_", "m", "s", "c", "_",
    "1", ".", "1", "\"", ",", " ", "\"", "O", "T", "A", "\"", ":", " ", "\"">>

\* the status string built by the GetFirmwareInfo branch (lines 128-131)
FirmwareInfo(st) == InfoPrefix \o esp_get_current_ota_label(st) \o <<"\"", "}">>

\* line 109: the integrity test on the bit count of the completed transaction
LenOk_short(t) == t <= C * 8

LenOk(t) == t = C * 8

\* lines 114 and 88: the fingerprint test on the first two received bytes
SyncOk_first(f) == f.b0 = Sync0

SyncOk(f) == ~(f.b0 # Sync0 \/ f.b1 # Sync1)

\* lines 92-95 alone: the echo's request type is compared, its sync is not
EchoOk_nosync(f, rt) == f.b2 = rt

\* lines 88-95: the echo of a chunk is accepted
EchoOk_nocmd(f, rt) == SyncOk(f)

EchoOk(f, rt) == SyncOk(f) /\ ~(f.b2 # rt)

\* line 81: payload bytes of the next chunk
ChunkLen_off(n) == IF n > C THEN C - HeaderLen ELSE n

ChunkLen(n) == IF n > C - HeaderLen THEN C - HeaderLen ELSE n

\* line 80: the value written to the length field, given the bytes still unsent
\* and the payload bytes of this chunk
LengthField_chunk(remaining, chunk) == chunk

\* line 80 moved behind line 84: the field written after len was decremented
LengthField_after(remaining, chunk) == remaining - chunk

LengthField(remaining, chunk) == remaining

\* line 82: offset into str of the section copied into the chunk
SectionStart_zero(sent) == 0

SectionStart(sent) == sent

\* line 79: the loop condition of transmitCString
MoreToSend_gt1(n) == n > 1

MoreToSend(n) == n > 0

\* lines 74-75: the request type is written at send_buffer + 2
WriteRequestType_off1(buf, rt) == [buf EXCEPT !.b1 = rt % 256]

WriteRequestType(buf, rt) == [buf EXCEPT !.cmd = rt % 256]

\* lines 111 and 116: the value result takes on a framing error
ErrorResult_false == FALSE

ErrorResult == TRUE

\* line 33: esp_restart() is called when esp_ota_set_boot_partition returned ESP_OK
SetBootOk_any(err) == TRUE

SetBootOk(err) == err = "ESP_OK"

\* lines 125, 135: the two request codes exchanged
Branch_swapped(b) ==
  IF b = Reboot THEN "info"
  ELSE IF b = GetFirmwareInfo THEN "reboot"
  ELSE IF b = RebootToOTAX THEN "ota"
  ELSE "unknown"

\* line 104: the condition under which a transaction is submitted
Resubmit_inverted(r) == ~r

Resubmit(r) == r

\* lines 125, 135, 139: the branch a request type takes
Branch_loose(b) ==
  IF b = GetFirmwareInfo THEN "info"
  ELSE IF b <= Reboot THEN "reboot"
  ELSE IF b = RebootToOTAX THEN "ota"
  ELSE "unknown"

Branch(b) ==
  IF b = GetFirmwareInfo THEN "info"
  ELSE IF b = Reboot THEN "reboot"
  ELSE IF b = RebootToOTAX THEN "ota"
  ELSE "unknown"

(* ---------------------------------------------------------------------- *)
(* State                                                                   *)
(* ---------------------------------------------------------------------- *)
VARIABLES
  pc,          \* position of the worker task (api_task / transmitCString / boot_into_slot)
  result,      \* api_task: bool result
  drv,         \* SPI slave driver: "idle", "queued", "ready" (set up), "done"
  hs,          \* level of GPIO_HANDSHAKE
  rx,          \* receive_buffer, offsets 0..3
  trans_len,   \* transaction.trans_len
  tx,          \* send_buffer: sync bytes, request type field, length field, payload region
  table,       \* application partitions in enumeration order (subtypes)
  running,     \* position of the running partition in table
  bootTarget,  \* position of the partition persisted as next-boot target, NoTarget if none
  reqType,     \* transmitCString: reqType
  str,         \* transmitCString: str
  len,         \* transmitCString: len
  bytes_sent,  \* transmitCString: bytes_sent
  ret,         \* transmitCString: returned value
  hsLog,       \* history: handshake calls made for the current transaction
  ntrans,      \* history: chunk transactions submitted by the current send
  wire,        \* history: payload bytes put on the bus by the current send
  mismatch,    \* history: an echo of the current send was rejected
  rxKind,      \* history: what the frame in rx was received as ("request" / "echo")
  taken,       \* history: the frame in rx has been examined by an echo check or a validation
  outcome,     \* history: how the last Processing cycle ended
  lastTx,      \* history: content of send_buffer when the last transaction was submitted
  ota_pc,            \* position in ota_c6_sd_perform / ota_c6_sd_perform_
  delete_after_use,  \* ota_c6_sd_perform: delete_after_use
  fsize,             \* size in bytes of the firmware file on the card
  fpos,              \* read position of firmware_file
  bytes_read,        \* ota_c6_sd_perform_: bytes_read
  ota_ret,           \* ota_c6_sd_perform_ / ota_c6_sd_perform: ret
  ota_calls,         \* history: the esp_hosted_slave_ota_* and unlink calls made, with results
  sd_pc,             \* position in __wrap_sdmmc_read_sectors / __wrap_sdmmc_write_sectors
  sector_buffer,     \* custom_sdmmc_cmd.c: sector_buffer, "NULL" or "allocated"
  sd_op,             \* the wrapper called: "read" or "write"
  start_block,       \* argument start_block
  block_count,       \* argument block_count
  is_aligned,        \* the caller's buffer is suitable for direct DMA
  sd_i,              \* loop counter i
  sd_err,            \* err / returned value
  sd_ncalls,         \* history: wrapper calls made so far
  sd_allocs,         \* history: heap_caps_malloc calls that returned a buffer
  sd_log,            \* history: the sdmmc_*_sectors_dma calls of the current wrapper call
  sd_copied          \* history: blocks copied to dst (read) or from src (write) in the current call

vars == <<pc, result, drv, hs, rx, trans_len, tx, table, running, bootTarget, reqType, str,
          len, bytes_sent, ret, hsLog, ntrans, wire, mismatch, rxKind, taken, outcome,
          lastTx,
          ota_pc, delete_after_use, fsize, fpos, bytes_read, ota_ret, ota_calls,
          sd_pc, sector_buffer, sd_op, start_block, block_count, is_aligned, sd_i, sd_err,
          sd_ncalls, sd_allocs, sd_log, sd_copied>>

spiVars == <<pc, result, drv, hs, rx, trans_len, tx, table, running, bootTarget, reqType, str,
             len, bytes_sent, ret, hsLog, ntrans, wire, mismatch, rxKind, taken, outcome,
             lastTx>>
otaVars == <<ota_pc, delete_after_use, fsize, fpos, bytes_read, ota_ret, ota_calls>>
sdVars == <<sd_pc, sector_buffer, sd_op, start_block, block_count, is_aligned, sd_i, sd_err,
            sd_ncalls, sd_allocs, sd_log, sd_copied>>
\* the state of the two SD-card modules, which the SPI responder never touches
extVars == <<otaVars, sdVars>>

progVars == <<result, rx, trans_len, tx, table, running, bootTarget>>
sendVars == <<reqType, str, len, bytes_sent, ret>>
sendHist == <<ntrans, wire, mismatch>>

\* content of the freshly allocated send_buffer past the two sync bytes
UninitHeaders == {[cmd |-> 0, len |-> 0], [cmd |-> 255, len |-> 1]}

\* static initial values of the worker's locals and of the history variables
IdleLocals ==
  /\ reqType = 0 /\ str = <<>> /\ len = 0 /\ bytes_sent = 0 /\ ret = TRUE
  /\ hsLog = <<>> /\ ntrans = 0 /\ wire = <<>> /\ mismatch = FALSE
  /\ rxKind = "none" /\ taken = FALSE /\ outcome = "none"

\* ota_c6_sd_perform has not been called
OtaIdle ==
  /\ ota_pc = "idle" /\ delete_after_use = FALSE /\ fsize = 0 /\ fpos = 0
  /\ bytes_read = 0 /\ ota_ret = "none" /\ ota_calls = <<>>

\* lines 33-34 of custom_sdmmc_cmd.c: the static initial values, no wrapper called
SdIdle ==
  /\ sd_pc = "idle" /\ sector_buffer = "NULL" /\ sd_op = "none"
  /\ start_block = 0 /\ block_count = 0 /\ is_aligned = FALSE
  /\ sd_i = 0 /\ sd_err = "none"
  /\ sd_ncalls = 0 /\ sd_allocs = 0 /\ sd_log = <<>> /\ sd_copied = <<>>

\* spi_start: handshake low, sync bytes written, buffers attached, task created
spi_start ==
  /\ pc = "loop"
  /\ result = TRUE
  /\ drv = "idle"
  /\ hs = 0
  /\ rx = NoFrame
  /\ trans_len = 0
  /\ \E u \in UninitHeaders :
       tx = [b0 |-> Sync0, b1 |-> Sync1, cmd |-> u.cmd, len |-> u.len, data |-> <<>>]
  /\ table \in Tables
  /\ running \in 1..Len(table)
  /\ bootTarget = NoTarget
  /\ lastTx = tx
  /\ IdleLocals

Init == spi_start /\ OtaIdle /\ SdIdle

(* ---------------------------------------------------------------------- *)
(* SPI slave driver: one queued transaction, callbacks around the exchange *)
(* ---------------------------------------------------------------------- *)
gpio_set_level(level) ==
  /\ hs' = level
  /\ hsLog' = Append(hsLog, IF level = 1 THEN "raise" ELSE "lower")

\* spi_post_setup_cb: handshake high
spi_post_setup_cb == gpio_set_level(1)

spi_post_trans_cb_high == gpio_set_level(1)

\* spi_post_trans_cb: handshake low
spi_post_trans_cb == gpio_set_level(0)

\* the driver has set the queued transaction up for the controller
PostSetup ==
  /\ UNCHANGED extVars
  /\ drv = "queued"
  /\ drv' = "ready"
  /\ spi_post_setup_cb
  /\ UNCHANGED <<pc, progVars, sendVars, sendHist, rxKind, taken, outcome, lastTx>>

\* the controller has clocked the exchange: receive buffer and trans_len filled
PostTrans ==
  /\ UNCHANGED extVars
  /\ drv = "ready"
  /\ drv' = "done"
  /\ \E f \in RxFrames : rx' = f
  /\ \E t \in TransLens : trans_len' = t
  /\ rxKind' = IF pc = "tx_wait" THEN "echo" ELSE "request"
  /\ taken' = FALSE
  /\ spi_post_trans_cb
  /\ UNCHANGED <<pc, result, tx, table, running, bootTarget, sendVars, sendHist, outcome,
                 lastTx>>

\* spi_slave_transmit, first half: queue the transaction, whose transmit buffer
\* holds frame, and block
Queue(frame) ==
  /\ drv = "idle"
  /\ drv' = "queued"
  /\ hsLog' = <<>>
  /\ lastTx' = frame

(* ---------------------------------------------------------------------- *)
(* api_task                                                                *)
(* ---------------------------------------------------------------------- *)
\* the locals of transmitCString and the histories of a send, outside a send
NoSend ==
  /\ reqType' = 0 /\ str' = <<>> /\ len' = 0 /\ bytes_sent' = 0 /\ ret' = TRUE
  /\ ntrans' = 0 /\ wire' = <<>> /\ mismatch' = FALSE

\* line 104: if (result) spi_slave_transmit(...); otherwise the last received
\* transaction is processed again
LoopTop ==
  /\ UNCHANGED extVars
  /\ pc = "loop"
  /\ IF Resubmit(result)
     THEN /\ Queue(tx)
          /\ pc' = "await"
     ELSE /\ pc' = "recycle"
          /\ UNCHANGED <<drv, hsLog, lastTx>>
  /\ outcome' = "none"
  /\ UNCHANGED <<hs, progVars, sendVars, sendHist, rxKind, taken>>

\* the worker is at line 106 with a transaction to process: spi_slave_transmit
\* has returned, or the transmit was skipped
AtProcessing == (pc = "await" /\ drv = "done") \/ pc = "recycle"

\* a Processing cycle begins: the driver holds no transaction, the frame is examined
Process ==
  /\ UNCHANGED extVars
  /\ AtProcessing
  /\ drv' = "idle"
  /\ taken' = TRUE
  /\ UNCHANGED <<hs, hsLog, rxKind, rx, trans_len, table, running, lastTx>>

\* lines 109-113
ProcessLenError ==
  /\ Process
  /\ ~LenOk(trans_len)
  /\ result' = ErrorResult
  /\ pc' = "loop"
  /\ outcome' = "len_err"
  /\ UNCHANGED <<tx, bootTarget, sendVars, sendHist>>

\* lines 114-118
ProcessSyncError ==
  /\ Process
  /\ LenOk(trans_len)
  /\ ~SyncOk(rx)
  /\ result' = ErrorResult
  /\ pc' = "loop"
  /\ outcome' = "sync_err"
  /\ UNCHANGED <<tx, bootTarget, sendVars, sendHist>>

\* lines 120-122: the frame passed both checks, the request is parsed
Parsed == Process /\ LenOk(trans_len) /\ SyncOk(rx)

\* lines 125-133: build the status string, call transmitCString
DispatchInfo ==
  /\ Parsed
  /\ Branch(rx.b2) = "info"
  /\ reqType' = rx.b2
  /\ str' = FirmwareInfo(table[running])
  /\ pc' = "tx_entry"
  /\ UNCHANGED <<result, tx, bootTarget, len, bytes_sent, ret, sendHist, outcome>>

\* lines 135-138: esp_restart()
DispatchReboot ==
  /\ Parsed
  /\ Branch(rx.b2) = "reboot"
  /\ pc' = "restarted"
  /\ outcome' = "reboot"
  /\ UNCHANGED <<result, tx, bootTarget, sendVars, sendHist>>

\* lines 26-35: boot_into_slot(slot); esp_ota_set_boot_partition persists p and
\* returns ESP_OK, or fails and leaves the next-boot target as it was
boot_into_slot(slot) ==
  LET p == esp_partition_find_first(table, SlotSubtype(slot))
  IN IF p = 0
     THEN /\ pc' = "loop"
          /\ outcome' = "ota_null"
          /\ UNCHANGED bootTarget
     ELSE \E err \in {"ESP_OK", "ESP_FAIL"} :
            /\ bootTarget' = IF err = "ESP_OK" THEN p ELSE bootTarget
            /\ IF SetBootOk(err)
               THEN pc' = "restarted" /\ outcome' = "ota_boot"
               ELSE pc' = "loop" /\ outcome' = "ota_fail"

\* lines 139-147: count the OTA partitions, range-check uint8_param_0
DispatchOta ==
  /\ Parsed
  /\ Branch(rx.b2) = "ota"
  /\ LET num_ota == count_bootable_ota_partitions(table)
         uint8_param_0 == rx.b3
     IN IF uint8_param_0 >= num_ota
        THEN /\ pc' = "loop"
             /\ outcome' = "ota_range"
             /\ UNCHANGED bootTarget
        ELSE boot_into_slot(uint8_param_0)
  /\ UNCHANGED <<result, tx, sendVars, sendHist>>

\* lines 148-151
DispatchUnknown ==
  /\ Parsed
  /\ Branch(rx.b2) = "unknown"
  /\ result' = TRUE
  /\ pc' = "loop"
  /\ outcome' = "unknown"
  /\ UNCHANGED <<tx, bootTarget, sendVars, sendHist>>

\* line 133: result = transmitCString(requestType, info)
AssignResult ==
  /\ UNCHANGED extVars
  /\ pc = "tx_ret"
  /\ result' = ret
  /\ pc' = "loop"
  /\ outcome' = IF ret THEN "info_ok" ELSE "info_abort"
  /\ NoSend
  /\ UNCHANGED <<drv, hs, rx, trans_len, tx, table, running, bootTarget, hsLog, rxKind,
                 taken, lastTx>>

(* ---------------------------------------------------------------------- *)
(* transmitCString                                                         *)
(* ---------------------------------------------------------------------- *)
\* lines 72-78: strlen, request type field, counters
SendEntry ==
  /\ UNCHANGED extVars
  /\ pc = "tx_entry"
  /\ len' = Len(str)
  /\ tx' = WriteRequestType(tx, reqType)
  /\ bytes_sent' = 0
  /\ ntrans' = 0 /\ wire' = <<>> /\ mismatch' = FALSE
  /\ pc' = "tx_loop"
  /\ UNCHANGED <<drv, hs, result, rx, trans_len, table, running, bootTarget, reqType, str,
                 ret, hsLog, rxKind, taken, outcome, lastTx>>

\* what the controller takes from a chunk frame: the first min(length field, C-7)
\* bytes of its payload region
Reassembled(frame) == SubSeq(frame.data, 1, Min(frame.len, C - HeaderLen))

\* lines 79-86 with the transaction queued but not waited for
SendChunk_nowait ==
  /\ UNCHANGED extVars
  /\ pc = "tx_loop"
  /\ MoreToSend(len)
  /\ LET bytes_to_send == ChunkLen(len)
         ptr_cstring_section == SectionStart(bytes_sent)
         section == SubSeq(str, ptr_cstring_section + 1, ptr_cstring_section + bytes_to_send)
     IN /\ tx' = [tx EXCEPT !.len = LengthField(len, bytes_to_send),
                            !.data = section \o SubSeq(tx.data, bytes_to_send + 1, Len(tx.data))]
        /\ len' = len - bytes_to_send
        /\ bytes_sent' = bytes_sent + bytes_to_send
  /\ wire' = wire \o Reassembled(tx')
  /\ ntrans' = ntrans + 1
  /\ Queue(tx')
  /\ pc' = "tx_loop"
  /\ UNCHANGED <<hs, result, rx, trans_len, table, running, bootTarget, reqType, str, ret,
                 mismatch, rxKind, taken, outcome>>

\* lines 79-86: encode the next chunk and submit its transaction
SendChunk ==
  /\ UNCHANGED extVars
  /\ pc = "tx_loop"
  /\ MoreToSend(len)
  /\ LET bytes_to_send == ChunkLen(len)
         ptr_cstring_section == SectionStart(bytes_sent)
         section == SubSeq(str, ptr_cstring_section + 1, ptr_cstring_section + bytes_to_send)
     IN /\ tx' = [tx EXCEPT !.len = LengthField(len, bytes_to_send),
                            !.data = section \o SubSeq(tx.data, bytes_to_send + 1, Len(tx.data))]
        /\ len' = len - bytes_to_send
        /\ bytes_sent' = bytes_sent + bytes_to_send
  /\ wire' = wire \o Reassembled(tx')
  /\ ntrans' = ntrans + 1
  /\ Queue(tx')
  /\ pc' = "tx_wait"
  /\ UNCHANGED <<hs, result, rx, trans_len, table, running, bootTarget, reqType, str, ret,
                 mismatch, rxKind, taken, outcome>>

\* line 97: the loop ends, return true
SendDone ==
  /\ UNCHANGED extVars
  /\ pc = "tx_loop"
  /\ ~MoreToSend(len)
  /\ ret' = TRUE
  /\ pc' = "tx_ret"
  /\ UNCHANGED <<drv, hs, progVars, reqType, str, len, bytes_sent, hsLog, sendHist, rxKind,
                 taken, outcome, lastTx>>

\* lines 86-95: spi_slave_transmit returns, the echo is checked
EchoCheck ==
  /\ UNCHANGED extVars
  /\ pc = "tx_wait"
  /\ drv = "done"
  /\ drv' = "idle"
  /\ taken' = TRUE
  /\ IF EchoOk(rx, reqType % 256)
     THEN /\ pc' = "tx_loop"
          /\ UNCHANGED <<ret, mismatch>>
     ELSE /\ ret' = FALSE
          /\ mismatch' = TRUE
          /\ pc' = "tx_ret"
  /\ UNCHANGED <<hs, progVars, reqType, str, len, bytes_sent, hsLog, ntrans, wire, rxKind,
                 outcome, lastTx>>

(* ---------------------------------------------------------------------- *)
(* Specifications                                                          *)
(* ---------------------------------------------------------------------- *)
Driver == PostSetup \/ PostTrans

Sender == SendEntry \/ SendChunk \/ SendDone \/ EchoCheck

Worker ==
  \/ LoopTop \/ ProcessLenError \/ ProcessSyncError
  \/ DispatchInfo \/ DispatchReboot \/ DispatchOta \/ DispatchUnknown
  \/ AssignResult \/ Sender

Next == Worker \/ Driver

Spec == Init /\ [][Next]_vars

\* the task is scheduled whenever it is runnable, and the controller completes
\* every exchange the driver has set up
FairSpec == Spec /\ WF_vars(Worker) /\ WF_vars(Driver)

\* partition tables as the partition tool lays them out: a factory partition
\* anywhere, OTA slots ota_0 .. ota_k-1 in ascending order, no test partition
OrderedTables ==
  {t \in Tables :
     /\ \A i \in 1..Len(t) : t[i] < ESP_PARTITION_SUBTYPE_APP_OTA_MAX
     /\ \A i, j \in 1..Len(t) : (i < j /\ CountsAsOta(t[i]) /\ CountsAsOta(t[j])) => t[i] < t[j]
     /\ \A i \in 1..Len(t) : \A st \in ESP_PARTITION_SUBTYPE_APP_OTA_0..(t[i] - 1) :
          \E j \in 1..Len(t) : t[j] = st}

\* the program started on a device with an ordered partition table
OtaInit == Init /\ table \in OrderedTables

OtaSpec == OtaInit /\ [][Next]_vars

\* lengths of the payloads handed to transmitCString on its own: around every
\* multiple of the chunk capacity, and the transaction capacity itself
PayloadLens ==
  {n \in 0..(MaxChunks * (C - HeaderLen) + 1) :
     \/ n % (C - HeaderLen) \in {0, 1, HeaderLen, C - HeaderLen - 1}
     \/ n = C}

Payload(n) == [i \in 1..n |-> (<<"a", "b", "c">>)[(i % 3) + 1]]

\* the program at the call of transmitCString (line 133, request type
\* GetFirmwareInfo) with any payload of a bounded length
SenderInit ==
  /\ pc = "tx_entry"
  /\ result = TRUE
  /\ drv = "idle"
  /\ hs = 0
  /\ rx = NoFrame
  /\ trans_len = 0
  /\ \E u \in UninitHeaders :
       tx = [b0 |-> Sync0, b1 |-> Sync1, cmd |-> u.cmd, len |-> u.len, data |-> <<>>]
  /\ table = <<ESP_PARTITION_SUBTYPE_APP_OTA_0, ESP_PARTITION_SUBTYPE_APP_OTA_1>>
  /\ running = 1
  /\ bootTarget = NoTarget
  /\ reqType = GetFirmwareInfo
  /\ \E n \in PayloadLens : str = Payload(n)
  /\ len = 0 /\ bytes_sent = 0 /\ ret = TRUE
  /\ hsLog = <<>> /\ ntrans = 0 /\ wire = <<>> /\ mismatch = FALSE
  /\ rxKind = "none" /\ taken = FALSE /\ outcome = "none"
  /\ lastTx = tx
  /\ OtaIdle /\ SdIdle

SenderSpec == SenderInit /\ [][Next]_vars

(* ---------------------------------------------------------------------- *)
(* ota_c6_sdcard.c: co-processor update from a firmware file on the card   *)
(* ---------------------------------------------------------------------- *)
\* line 26
CHUNK_SIZE == 1500

\* the firmware file holds at most MaxFileChunks full chunks and one byte
MaxFileChunks == 2

FileSizes ==
  {n \in 0..(MaxFileChunks * CHUNK_SIZE + 1) : n % CHUNK_SIZE \in {0, 1, CHUNK_SIZE - 1}}

\* ESP_HOSTED_VERSION_VAL(major, minor, patch) of 1.0.0, 1.0.5, 1.1.0, 2.0.0
Versions == {65536, 65541, 65792, 131072}

\* lines 29-53: compare major.minor, the patch level masked out
compare_self_version_with_slave_version(host_version, slave_version) ==
  LET slave == slave_version - (slave_version % 256)
      host == host_version - (host_version % 256)
  IN IF host = slave THEN 0
     ELSE IF host > slave THEN -1
     ELSE 1

\* lines 56-79: 0 (ESP_OK) when the co-processor's version cannot be read
compare_host_slave_version(rpc_ok, host_version, slave_version) ==
  IF ~rpc_ok THEN 0
  ELSE compare_self_version_with_slave_version(host_version, slave_version)

\* line 409: the test that leads to esp_hosted_slave_ota_activate
OtaCompleted_notfailed(r) == r # "ESP_HOSTED_SLAVE_OTA_FAILED"

OtaCompleted(r) == r = "ESP_HOSTED_SLAVE_OTA_COMPLETED"

\* a call recorded in ota_calls
Call(op, ok, off, n) == [op |-> op, ok |-> ok, off |-> off, n |-> n]

\* ota_c6_sd_perform_ returns r to line 407
Return(r) == ota_pc' = "returned" /\ ota_ret' = r

\* lines 386-403: the three ESP_ERROR_CHECKs abort on failure; the update is
\* skipped when compare_host_slave_version returns 0
OtaStart ==
  /\ ota_pc = "entry"
  /\ \/ ota_pc' = "abort" /\ UNCHANGED ota_ret
     \/ \E rpc_ok \in BOOLEAN, host \in Versions, slave \in Versions :
          LET host_slave_version_not_compatible ==
                compare_host_slave_version(rpc_ok, host, slave)
          IN IF host_slave_version_not_compatible = 0
             THEN ota_pc' = "exit" /\ ota_ret' = "ESP_FAIL"
             ELSE ota_pc' = "malloc" /\ UNCHANGED ota_ret
  /\ UNCHANGED <<delete_after_use, fsize, fpos, bytes_read, ota_calls, spiVars, sdVars>>

\* lines 256-267: the two buffers
OtaMalloc ==
  /\ ota_pc = "malloc"
  /\ \/ Return("ESP_ERR_NO_MEM")
     \/ ota_pc' = "find" /\ UNCHANGED ota_ret
  /\ UNCHANGED <<delete_after_use, fsize, fpos, bytes_read, ota_calls, spiVars, sdVars>>

\* lines 274-280: find_latest_firmware
FindFirmware ==
  /\ ota_pc = "find"
  /\ \/ Return("ESP_HOSTED_SLAVE_OTA_FAILED")
     \/ ota_pc' = "parse" /\ UNCHANGED ota_ret
  /\ UNCHANGED <<delete_after_use, fsize, fpos, bytes_read, ota_calls, spiVars, sdVars>>

\* lines 284-292: parse_image_header_from_file
ParseHeader ==
  /\ ota_pc = "parse"
  /\ \/ Return("ESP_HOSTED_SLAVE_OTA_FAILED")
     \/ ota_pc' = "version" /\ UNCHANGED ota_ret
  /\ UNCHANGED <<delete_after_use, fsize, fpos, bytes_read, ota_calls, spiVars, sdVars>>

\* lines 297-320: the update is skipped when the file's version string is the
\* co-processor's
VersionCheck ==
  /\ ota_pc = "version"
  /\ \E version_ok \in BOOLEAN, same \in BOOLEAN :
       IF version_ok /\ same
       THEN Return("ESP_HOSTED_SLAVE_OTA_NOT_REQUIRED")
       ELSE ota_pc' = "fopen" /\ UNCHANGED ota_ret
  /\ UNCHANGED <<delete_after_use, fsize, fpos, bytes_read, ota_calls, spiVars, sdVars>>

\* lines 323-329
OpenFile ==
  /\ ota_pc = "fopen"
  /\ \/ Return("ESP_FAIL") /\ UNCHANGED fpos
     \/ ota_pc' = "begin" /\ fpos' = 0 /\ UNCHANGED ota_ret
  /\ UNCHANGED <<delete_after_use, fsize, bytes_read, ota_calls, spiVars, sdVars>>

\* lines 334-341: esp_hosted_slave_ota_begin
OtaBegin ==
  /\ ota_pc = "begin"
  /\ \E ok \in BOOLEAN :
       /\ ota_calls' = Append(ota_calls, Call("begin", ok, 0, 0))
       /\ IF ok THEN ota_pc' = "fread" /\ UNCHANGED ota_ret
          ELSE Return("ESP_HOSTED_SLAVE_OTA_FAILED")
  /\ UNCHANGED <<delete_after_use, fsize, fpos, bytes_read, spiVars, sdVars>>

\* line 344: fread of up to CHUNK_SIZE bytes; a read error gives a short count
\* or none; the loop ends on a count of 0 (line 355)
ReadChunk ==
  /\ ota_pc = "fread"
  /\ LET full == Min(CHUNK_SIZE, fsize - fpos)
     IN \E n \in {0, full} \cup (IF full > 1 THEN {full - 1} ELSE {}) :
          /\ bytes_read' = n
          /\ fpos' = fpos + n
          /\ ota_pc' = IF n > 0 THEN "write" ELSE "end"
  /\ UNCHANGED <<delete_after_use, fsize, ota_ret, ota_calls, spiVars, sdVars>>

\* lines 345-352: esp_hosted_slave_ota_write(chunk, bytes_read)
WriteChunk ==
  /\ ota_pc = "write"
  /\ \E ok \in BOOLEAN :
       /\ ota_calls' = Append(ota_calls, Call("write", ok, fpos - bytes_read, bytes_read))
       /\ IF ok THEN ota_pc' = "fread" /\ UNCHANGED ota_ret
          ELSE Return("ESP_HOSTED_SLAVE_OTA_FAILED")
  /\ UNCHANGED <<delete_after_use, fsize, fpos, bytes_read, spiVars, sdVars>>

\* lines 358-364: esp_hosted_slave_ota_end
OtaEnd ==
  /\ ota_pc = "end"
  /\ \E ok \in BOOLEAN :
       /\ ota_calls' = Append(ota_calls, Call("end", ok, 0, 0))
       /\ IF ok THEN ota_pc' = "unlink" /\ UNCHANGED ota_ret
          ELSE Return("ESP_HOSTED_SLAVE_OTA_FAILED")
  /\ UNCHANGED <<delete_after_use, fsize, fpos, bytes_read, spiVars, sdVars>>

\* lines 369-382: unlink when requested, return ESP_HOSTED_SLAVE_OTA_COMPLETED
DeleteFile ==
  /\ ota_pc = "unlink"
  /\ IF delete_after_use
     THEN \E ok \in BOOLEAN : ota_calls' = Append(ota_calls, Call("unlink", ok, 0, 0))
     ELSE UNCHANGED ota_calls
  /\ Return("ESP_HOSTED_SLAVE_OTA_COMPLETED")
  /\ UNCHANGED <<delete_after_use, fsize, fpos, bytes_read, spiVars, sdVars>>

\* lines 407-425: activate after a completed update, return ret
OtaActivate ==
  /\ ota_pc = "returned"
  /\ IF OtaCompleted(ota_ret)
     THEN \E ok \in BOOLEAN :
            /\ ota_calls' = Append(ota_calls, Call("activate", ok, 0, 0))
            /\ ota_ret' = IF ok THEN "ESP_OK" ELSE "ESP_ERR"
     ELSE UNCHANGED <<ota_calls, ota_ret>>
  /\ ota_pc' = "exit"
  /\ UNCHANGED <<delete_after_use, fsize, fpos, bytes_read, spiVars, sdVars>>

OtaNext ==
  \/ OtaStart \/ OtaMalloc \/ FindFirmware \/ ParseHeader \/ VersionCheck \/ OpenFile
  \/ OtaBegin \/ ReadChunk \/ WriteChunk \/ OtaEnd \/ DeleteFile \/ OtaActivate

\* the SPI responder started on a device with a factory partition only; it
\* takes no step while the update runs
SpiParked ==
  /\ spi_start
  /\ table = <<0>>
  /\ tx.cmd = 0

\* ota_c6_sd_perform is called with either flag on a card whose firmware file
\* has any of the bounded sizes
SdOtaInit ==
  /\ SpiParked /\ SdIdle
  /\ ota_pc = "entry"
  /\ delete_after_use \in BOOLEAN
  /\ fsize \in FileSizes
  /\ fpos = 0 /\ bytes_read = 0 /\ ota_ret = "none" /\ ota_calls = <<>>

SdOtaSpec == SdOtaInit /\ [][OtaNext]_vars

(* ---------------------------------------------------------------------- *)
(* custom_sdmmc_cmd.c: sector read and write through a DMA bounce buffer   *)
(* ---------------------------------------------------------------------- *)
\* line 61: the only block size the wrappers accept
BlockSize == 512

\* a wrapper call transfers at most MaxBlocks blocks; MaxCalls calls are made
MaxBlocks == 3
MaxCalls == 2

\* first blocks of the modelled calls
StartBlocks == {0, 7}

\* csd.sector_size of the cards modelled
SectorSizes == {512, 1024}

\* errors sdmmc_read_sectors_dma / sdmmc_write_sectors_dma may return
SdErrors == {"ESP_ERR_TIMEOUT", "ESP_ERR_INVALID_CRC"}

\* lines 85 and 133: the loop is left on an error
StopOnError_never(e) == FALSE

StopOnError(e) == e # "ESP_OK"

\* a call of sdmmc_read_sectors_dma / sdmmc_write_sectors_dma
Dma(op, block, count, buf, e) ==
  [op |-> op, block |-> block, count |-> count, buf |-> buf, err |-> e]

\* __wrap_sdmmc_read_sectors or __wrap_sdmmc_write_sectors is called
SdCall ==
  /\ sd_pc \in {"idle", "returned"}
  /\ sd_ncalls < MaxCalls
  /\ sd_ncalls' = sd_ncalls + 1
  /\ sd_op' \in {"read", "write"}
  /\ start_block' \in StartBlocks
  /\ block_count' \in 0..MaxBlocks
  /\ is_aligned' \in BOOLEAN
  /\ sd_i' = 0 /\ sd_err' = "none" /\ sd_log' = <<>> /\ sd_copied' = <<>>
  /\ sd_pc' = "entry"
  /\ UNCHANGED <<sector_buffer, sd_allocs, spiVars, otaVars>>

\* lines 55-72 and 101-118: nothing to do for block_count = 0; the assert on
\* the block size; the fast path hands the caller's buffer to the DMA call
SdEntry ==
  /\ sd_pc = "entry"
  /\ IF block_count = 0
     THEN sd_pc' = "returned" /\ sd_err' = "ESP_OK" /\ UNCHANGED sd_log
     ELSE \E block_size \in SectorSizes :
            IF block_size # BlockSize
            THEN sd_pc' = "abort" /\ UNCHANGED <<sd_err, sd_log>>
            ELSE IF is_aligned
            THEN \E e \in {"ESP_OK"} \cup SdErrors :
                   /\ sd_log' = Append(sd_log, Dma(sd_op, start_block, block_count, "caller", e))
                   /\ sd_err' = e
                   /\ sd_pc' = "returned"
            ELSE sd_pc' = "alloc" /\ UNCHANGED <<sd_err, sd_log>>
  /\ UNCHANGED <<sector_buffer, sd_op, start_block, block_count, is_aligned, sd_i,
                 sd_ncalls, sd_allocs, sd_copied, spiVars, otaVars>>

\* lines 37-50 with 75-78 and 121-124: ensure_buffer_allocated
ensure_buffer_allocated ==
  /\ sd_pc = "alloc"
  /\ IF sector_buffer = "NULL"
     THEN \/ /\ sector_buffer' = "allocated"
             /\ sd_allocs' = sd_allocs + 1
             /\ sd_err' = "ESP_OK"
             /\ sd_pc' = "loop"
          \/ /\ sd_err' = "ESP_ERR_NO_MEM"
             /\ sd_pc' = "returned"
             /\ UNCHANGED <<sector_buffer, sd_allocs>>
     ELSE /\ sd_err' = "ESP_OK"
          /\ sd_pc' = "loop"
          /\ UNCHANGED <<sector_buffer, sd_allocs>>
  /\ UNCHANGED <<sd_op, start_block, block_count, is_aligned, sd_i, sd_ncalls, sd_log,
                 sd_copied, spiVars, otaVars>>

\* lines 83-91: one iteration of the read loop: the block is read into
\* sector_buffer and, unless that failed, copied to dst
ReadBlock ==
  /\ sd_pc = "loop" /\ sd_op = "read"
  /\ sd_i < block_count
  /\ \E e \in {"ESP_OK"} \cup SdErrors :
       /\ sd_log' = Append(sd_log, Dma("read", start_block + sd_i, 1, "sector_buffer", e))
       /\ sd_err' = e
       /\ IF StopOnError(e)
          THEN sd_pc' = "returned" /\ UNCHANGED <<sd_i, sd_copied>>
          ELSE /\ sd_copied' = Append(sd_copied, sd_i)
               /\ sd_i' = sd_i + 1
               /\ sd_pc' = "loop"
  /\ UNCHANGED <<sector_buffer, sd_op, start_block, block_count, is_aligned, sd_ncalls,
                 sd_allocs, spiVars, otaVars>>

\* lines 129-138: one iteration of the write loop: the block is copied from
\* src into sector_buffer and written
WriteBlock ==
  /\ sd_pc = "loop" /\ sd_op = "write"
  /\ sd_i < block_count
  /\ sd_copied' = Append(sd_copied, sd_i)
  /\ \E e \in {"ESP_OK"} \cup SdErrors :
       /\ sd_log' = Append(sd_log, Dma("write", start_block + sd_i, 1, "sector_buffer", e))
       /\ sd_err' = e
       /\ IF StopOnError(e)
          THEN sd_pc' = "returned" /\ UNCHANGED sd_i
          ELSE sd_i' = sd_i + 1 /\ sd_pc' = "loop"
  /\ UNCHANGED <<sector_buffer, sd_op, start_block, block_count, is_aligned, sd_ncalls,
                 sd_allocs, spiVars, otaVars>>

\* lines 93 and 140: the loop has run to its end, return err
SdReturn ==
  /\ sd_pc = "loop"
  /\ ~(sd_i < block_count)
  /\ sd_pc' = "returned"
  /\ UNCHANGED <<sector_buffer, sd_op, start_block, block_count, is_aligned, sd_i, sd_err,
                 sd_ncalls, sd_allocs, sd_log, sd_copied, spiVars, otaVars>>

SdNext ==
  \/ SdCall \/ SdEntry \/ ensure_buffer_allocated
  \/ ReadBlock \/ WriteBlock \/ SdReturn

\* the program before the first wrapper call
SdInit == SpiParked /\ OtaIdle /\ SdIdle

SdSpec == SdInit /\ [][SdNext]_vars

(* ---------------------------------------------------------------------- *)
(* Vocabulary of the properties, stated on the wire format alone           *)
(* ---------------------------------------------------------------------- *)
\* the first two bytes of the frame are not 0xCA 0xFE
BadSync(f) == f.b0 # 202 \/ f.b1 # 254

\* the frame is not the echo of a chunk of command cmd
EchoCorrupted(f, cmd) == BadSync(f) \/ f.b2 # cmd

\* the bootable slots of a partition table, in enumeration order: the application
\* partitions whose subtype lies in the range OTA_MIN .. OTA_MAX of esp_partition.h
BootablePositions(t) == {i \in 1..Len(t) : t[i] \in 16..32}

NumBootable(t) == Cardinality(BootablePositions(t))

\* the position of the n-th bootable slot, counted from 0 among the bootable ones
NthBootable(t, n) ==
  CHOOSE i \in BootablePositions(t) : Cardinality({j \in BootablePositions(t) : j < i}) = n

CeilDiv(a, b) == (a + b - 1) \div b

\* the step leaves the device as it was and the worker back at the top of the loop,
\* about to submit the next AwaitTransaction exchange: no restart, no boot target,
\* no write to the transmit buffer, no transaction submitted, no send started
DiscardedStep ==
  /\ pc' = "loop"
  /\ result' = TRUE
  /\ bootTarget' = bootTarget
  /\ tx' = tx
  /\ drv' = "idle"
  /\ ntrans' = ntrans

(* ---------------------------------------------------------------------- *)
(* Properties                                                              *)
(* ---------------------------------------------------------------------- *)
\* C1: handshake alternation. For every bus transaction (await or chunk, on every
\* path) the handshake calls are exactly one raise followed by exactly one lower:
\* nothing before the driver has set the transaction up, a raise while it is
\* ready, raise-lower once it completed; the line is high exactly while a
\* transaction is set up and not yet exchanged, so a transaction is never
\* submitted (and no raise occurs) before the lower of the previous one.
HandshakeAlternates ==
  /\ (hs = 1) <=> (drv = "ready")
  /\ drv = "queued" => hsLog = <<>>
  /\ drv = "ready" => hsLog = <<"raise">>
  /\ drv = "done" => hsLog = <<"raise", "lower">>
  /\ drv = "idle" => hsLog \in {<<>>, <<"raise", "lower">>}

\* C1 witness: a chunk transaction whose echo is corrupted has completed with its
\* raise and its lower
HandshakeAlternatesWitness ==
  /\ pc = "tx_wait" /\ drv = "done"
  /\ EchoCorrupted(rx, reqType)
  /\ hsLog = <<"raise", "lower">> /\ hs = 0

\* C2: the loop never stalls. Whenever the worker is at the top of the loop it
\* eventually has a bus transaction submitted for the next request, unless the
\* device restarted.
LoopNeverStalls == (pc = "loop") ~> (pc = "await" \/ pc = "restarted")

\* C3: RebootToOTAX with an argument at or above the number of bootable slots
\* ends the cycle without restart, without a change of the next-boot target,
\* without a transaction and without a send.
OtaOutOfRangeNoEffect ==
  [][(/\ AtProcessing
      /\ trans_len = 16384 /\ ~BadSync(rx)
      /\ rx.b2 = RebootToOTAX
      /\ rx.b3 >= NumBootable(table))
     => (/\ pc' = "loop"
         /\ bootTarget' = bootTarget
         /\ tx' = tx
         /\ drv' = "idle"
         /\ ntrans' = ntrans /\ wire' = wire)]_vars

\* C3 witness: an out-of-range request was refused on a device that has bootable
\* slots, with the argument right at the number of slots
OtaOutOfRangeWitness ==
  /\ pc = "loop" /\ outcome = "ota_range"
  /\ NumBootable(table) = 2 /\ rx.b3 = 2
  /\ bootTarget = NoTarget

\* C4: RebootToOTAX with an argument in range persists the arg0-th bootable slot,
\* counted from 0 among the bootable slots in enumeration order.
OtaSelectsNthBootable ==
  outcome = "ota_boot" => bootTarget = NthBootable(table, rx.b3)

\* C5: a send whose echoes all matched returned success after exactly
\* ceil(L / (C-7)) chunk transactions that carried L payload bytes in total.
ChunkCountExact ==
  (pc = "tx_ret" /\ ~mismatch)
  => (/\ ret = TRUE
      /\ ntrans = CeilDiv(Len(str), 2048 - 7)
      /\ Len(wire) = Len(str))

\* C5 witness: a payload of two full chunks and one byte was sent in three chunks
ChunkCountWitness ==
  /\ pc = "tx_ret" /\ ret /\ ~mismatch
  /\ Len(str) = 2 * 2041 + 1 /\ ntrans = 3

\* C6: a corrupted echo makes the sender return failure at once, with no further
\* chunk transaction; and a send only ever starts on a request delivered by an
\* await transaction, so the aborted payload is neither resumed nor retried.
EchoMismatchAborts ==
  /\ [][(pc = "tx_wait" /\ drv = "done" /\ EchoCorrupted(rx, reqType))
        => (pc' = "tx_ret" /\ ret' = FALSE /\ drv' = "idle" /\ ntrans' = ntrans
            /\ wire' = wire)]_vars
  /\ [][(pc' = "tx_entry" /\ pc # "tx_entry") => (pc = "await" /\ rxKind = "request")]_vars
  /\ [](pc = "tx_ret" /\ ~ret => mismatch /\ ntrans >= 1)

\* C6 witness: the first of three chunks was answered with a wrong command byte
\* and the send returned failure after that one transaction
EchoMismatchWitness ==
  /\ pc = "tx_ret" /\ ~ret
  /\ ~BadSync(rx) /\ rx.b2 # reqType
  /\ Len(str) > 2 * 2041 /\ ntrans = 1

\* C7: a frame whose first two bytes are not the sync marker is discarded whole,
\* whatever its command and argument bytes.
BadSyncDiscarded ==
  [][(AtProcessing /\ BadSync(rx)) => DiscardedStep]_vars

\* C7 witness: a frame with one wrong sync byte and the Reboot code was discarded
BadSyncWitness ==
  /\ pc = "loop" /\ outcome = "sync_err"
  /\ rx.b0 = 202 /\ rx.b1 # 254 /\ rx.b2 = Reboot

\* C8 as claimed: every Processing cycle examines a frame nothing has examined
\* before, and a frame received as the echo of a chunk causes no restart.
FrameConsumedOnce ==
  /\ AtProcessing => ~taken
  /\ rxKind = "echo" => pc # "restarted"

\* C8 amended: a Processing cycle entered with result true examines an unexamined
\* frame of an await transaction; one entered with result false examines the
\* corrupted echo that aborted the send; a matching echo is never processed.
EchoRecycledOnAbort ==
  AtProcessing =>
    IF result
    THEN rxKind = "request" /\ ~taken
    ELSE rxKind = "echo" /\ taken /\ EchoCorrupted(rx, GetFirmwareInfo)

\* C8 witness: the frame received as a corrupted echo was dispatched and
\* restarted the device
EchoRecycledWitness ==
  /\ pc = "restarted" /\ rxKind = "echo"
  /\ outcome = "reboot" /\ ~result

\* C9: a completed transaction whose bit count is not 2048 * 8 is rejected
\* whatever its buffer holds.
BadLengthRejected ==
  [][(AtProcessing /\ trans_len # 2048 * 8) => DiscardedStep]_vars

\* C9 witness: a short transaction holding a well-synced Reboot frame was rejected
BadLengthWitness ==
  /\ pc = "loop" /\ outcome = "len_err"
  /\ ~BadSync(rx) /\ rx.b2 = Reboot

\* C10: a well-framed request with an unknown command code has no effect and the
\* loop goes on to the next await transaction without a response.
UnknownCommandNoEffect ==
  [][(/\ AtProcessing
      /\ trans_len = 2048 * 8 /\ ~BadSync(rx)
      /\ rx.b2 \notin {25, 19, 34})
     => (DiscardedStep /\ wire' = wire /\ pc' # "tx_entry")]_vars

\* C10 witness: an unknown command was dropped after a status response had been sent
UnknownCommandWitness ==
  /\ pc = "loop" /\ outcome = "unknown"
  /\ tx.cmd = GetFirmwareInfo /\ result

\* the worker is inside transmitCString
SendPcs == {"tx_entry", "tx_loop", "tx_wait", "tx_ret"}

\* C11: a well-framed Reboot request restarts the device whatever its argument,
\* and between the end of the transaction that delivered it and the restart no
\* transaction is submitted and the handshake stays low; nothing runs after the
\* restart.
RebootRestartsSilently ==
  [][/\ (AtProcessing /\ trans_len = 2048 * 8 /\ ~BadSync(rx) /\ rx.b2 = 19)
          => /\ pc' = "restarted"
             /\ hs = 0 /\ hs' = 0 /\ hsLog' = hsLog
             /\ drv' = "idle" /\ lastTx' = lastTx /\ ntrans' = ntrans
             /\ tx' = tx /\ bootTarget' = bootTarget
     /\ pc = "restarted" => vars' = vars]_vars

\* C11 witness: a Reboot request with a non-zero argument restarted the device
\* with the handshake low and no transaction queued
RebootWitness ==
  /\ pc = "restarted" /\ outcome = "reboot" /\ rxKind = "request"
  /\ rx.b3 # 0 /\ hs = 0 /\ drv = "idle"

\* C12: while a handler's send is running the loop submits nothing but that
\* send's chunk transactions, starts no other handler and does not return to
\* the top of the loop before the send has returned with no transaction in
\* flight; a handler starts only from a Processing cycle and an await
\* transaction is submitted only from the top of the loop.
OneRequestAtATime ==
  [][/\ pc \in SendPcs =>
          /\ pc' \in SendPcs \/ (pc = "tx_ret" /\ pc' = "loop" /\ drv = "idle")
          /\ pc' \in SendPcs => (outcome' = outcome /\ reqType' = reqType /\ str' = str)
          /\ (drv' = "queued" /\ drv # "queued")
               => (pc = "tx_loop" /\ pc' = "tx_wait" /\ ntrans' = ntrans + 1)
     /\ (pc' \in {"tx_entry", "restarted"} /\ pc' # pc) => AtProcessing
     /\ (pc' = "await" /\ pc # "await") => pc = "loop"]_vars

\* C12 witness: a send of two chunks has returned success, its last echo
\* examined and no transaction in flight, and the loop has not yet moved on
OneRequestWitness ==
  /\ pc = "tx_ret" /\ ret /\ ntrans = 2
  /\ drv = "idle" /\ taken /\ rxKind = "echo" /\ outcome = "none"

\* C13: a chunk transaction is submitted only when no transaction is in flight;
\* every chunk after the first is submitted only after the previous chunk's echo
\* was examined and carried both the sync marker and the command byte; chunk
\* number k carries the payload bytes from offset (k - 1) * (C - 7) on.
NoPipelining ==
  [][(ntrans' = ntrans + 1) =>
       /\ drv = "idle" /\ drv' = "queued"
       /\ ntrans >= 1 => (taken /\ rxKind = "echo" /\ ~EchoCorrupted(rx, reqType))
       /\ Reassembled(tx') = SubSeq(str, ntrans * (2048 - 7) + 1,
                                     Min(Len(str), (ntrans + 1) * (2048 - 7)))]_vars

\* C13 witness: the second chunk of a payload is in flight after the first
\* chunk's echo matched
NoPipeliningWitness ==
  /\ pc = "tx_wait" /\ ntrans = 2 /\ drv = "queued"
  /\ Len(str) > 2048 - 7 /\ ~EchoCorrupted(rx, reqType)

\* C14: while chunk number k of a payload of L bytes is on the bus, the length
\* field holds L - (k - 1) * (C - 7), the bytes unsent before this chunk; the
\* payload region starts with the next min(that many, C - 7) bytes of the
\* payload; and when nothing is left after this chunk the field is at most C - 7.
LengthFieldCountsDown ==
  pc = "tx_wait" =>
    LET offset == (ntrans - 1) * (2048 - 7)
        before == Len(str) - offset
        carried == Min(before, 2048 - 7)
    IN /\ ntrans >= 1 /\ before >= 1
       /\ tx.len = before
       /\ Len(tx.data) >= carried
       /\ SubSeq(tx.data, 1, carried) = SubSeq(str, offset + 1, offset + carried)
       /\ len = before - carried
       /\ len = 0 => tx.len <= 2048 - 7

\* C14 witness: the last chunk of a payload of one full chunk and one byte is on
\* the bus, length field 1, the rest of the payload region left over from the
\* first chunk
LengthFieldWitness ==
  /\ pc = "tx_wait" /\ ntrans = 2 /\ Len(str) = 2048 - 7 + 1
  /\ tx.len = 1 /\ len = 0 /\ Len(tx.data) = 2048 - 7

\* C15: what the controller reassembles, taking from each chunk frame the first
\* min(length field, C - 7) bytes of the payload region in the order sent, is
\* always a prefix of the payload, and is the payload itself when the send
\* returns success.
ReassemblyRoundTrip ==
  pc \in {"tx_loop", "tx_wait", "tx_ret"} =>
    /\ Len(wire) <= Len(str)
    /\ wire = SubSeq(str, 1, Len(wire))
    /\ (pc = "tx_ret" /\ ret) => wire = str

\* C15 witness: a payload of three chunks was sent with every echo matching
ReassemblyWitness ==
  /\ pc = "tx_ret" /\ ret /\ ntrans = 3 /\ Len(wire) = 2 * (2048 - 7) + 1
  /\ wire[2048 - 7 + 1] # wire[1] /\ ~EchoCorrupted(rx, reqType)

FramingErrorResubmits ==
  [][/\ (AtProcessing /\ (trans_len # 2048 * 8 \/ BadSync(rx)))
          => (pc' = "loop" /\ tx' = tx /\ lastTx' = lastTx)
     /\ (pc = "loop" /\ outcome \in {"len_err", "sync_err"})
          => /\ tx = lastTx
             /\ pc' = "await" /\ drv = "idle" /\ drv' = "queued"
             /\ tx' = tx /\ lastTx' = lastTx]_vars

\* C17 witness: after a status response, a request with a bad sync marker was
\* examined and the next transaction is queued with the response frame still in
\* the transmit buffer
FramingErrorWitness ==
  /\ pc = "await" /\ drv = "queued"
  /\ rxKind = "request" /\ taken /\ BadSync(rx) /\ trans_len = 2048 * 8
  /\ tx = lastTx /\ tx.cmd = GetFirmwareInfo /\ Len(tx.data) > 0

SyncMarkerKept ==
  /\ tx.b0 = 202 /\ tx.b1 = 254
  /\ lastTx.b0 = 202 /\ lastTx.b1 = 254
  /\ pc = "tx_wait" => (tx = lastTx /\ lastTx.cmd = reqType /\ reqType = 25)

\* C19 witness: the first chunk of a status response is ready on the bus with
\* the handshake high, the request it answers still in the receive buffer
SyncMarkerWitness ==
  /\ pc = "tx_wait" /\ drv = "ready" /\ hs = 1
  /\ lastTx.b0 = 202 /\ lastTx.b1 = 254 /\ lastTx.cmd = 25 /\ rxKind = "request"

\* C20: from the submission of a transaction to its completion the worker does
\* not move: it writes no buffer, examines no frame, runs no handler and does
\* not restart; the handshake is high only inside that window, is raised with
\* the transmit buffer holding the frame as submitted, and changes only in a
\* step of the driver.
BufferOwnership ==
  [][/\ drv \in {"queued", "ready"}
          => /\ pc \in {"await", "tx_wait"} /\ pc' = pc
             /\ tx = lastTx /\ tx' = tx
             /\ taken' => taken
             /\ <<result, bootTarget, sendVars, outcome>>' = <<result, bootTarget, sendVars, outcome>>
     /\ hs = 1 => drv = "ready"
     /\ hs' # hs
          => /\ drv' # drv /\ pc' = pc
             /\ hs' = 1 => (drv = "queued" /\ tx = lastTx)]_vars

\* C20 witness: the handshake is high on the second chunk of a payload, the
\* worker blocked in its transaction
BufferOwnershipWitness ==
  /\ hs = 1 /\ drv = "ready" /\ pc = "tx_wait" /\ ntrans = 2
  /\ tx = lastTx /\ tx.len = len + Min(tx.len, 2048 - 7) /\ taken

\* the sequence sub occurs in the sequence s
Contains(s, sub) ==
  \E i \in 1..(Len(s) - Len(sub) + 1) : SubSeq(s, i, i + Len(sub) - 1) = sub

\* the label of the boot slot of an app partition of subtype st: OTA slot n is
\* the partition of subtype 0x10 + n, n = 0 .. 15; factory and test partitions
\* are no OTA slots
SlotLabel(st) ==
  IF st \in 16..31
  THEN <<"o", "t", "a">> \o
       (<<<<"0">>, <<"1">>, <<"2">>, <<"3">>, <<"4">>, <<"5">>, <<"6">>, <<"7">>,
          <<"8">>, <<"9">>, <<"1", "0">>, <<"1", "1">>, <<"1", "2">>, <<"1", "3">>,
          <<"1", "4">>, <<"1", "5">>>>)[st - 16 + 1]
  ELSE <<"f", "a", "c", "t", "o", "r", "y">>

\* C21: the string handed to transmitCString by the GetFirmwareInfo branch holds
\* the hardware identifier, the firmware identifier and, as its last value in
\* quotes, the label of the running boot slot ("ota<n>" for OTA slot n,
\* "factory" otherwise); it is handed over whole, under the GetFirmwareInfo code.
StatusStringLabel ==
  (pc = "tx_entry" /\ outcome = "none" /\ rxKind = "request") =>
    /\ reqType = 25
    /\ Contains(str, <<"D", "A", "D", "A">>)
    /\ Contains(str, <<"t", "u", "s", "b", "_", "m", "s", "c", "_", "1", ".", "1">>)
    /\ Len(str) < 1024
    /\ Len(str) >= Len(SlotLabel(table[running])) + 3
    /\ SubSeq(str, Len(str) - Len(SlotLabel(table[running])) - 2, Len(str))
         = <<"\"">> \o SlotLabel(table[running]) \o <<"\"", "}">>

\* C22: the status string is shorter than the 1024 bytes of its buffer and so
\* than the chunk capacity; its send submits exactly one chunk transaction, whose
\* length field is the length of the whole string and whose payload region holds
\* the whole string; when the echo matches the send returns success and the loop
\* is back at its top with result true, the response frame the last one
\* submitted.
SingleChunkStatus ==
  /\ pc \in SendPcs => (Len(str) < 1024 /\ Len(str) <= 2048 - 7 /\ ntrans <= 1)
  /\ pc = "tx_wait" =>
       (/\ ntrans = 1 /\ tx.len = Len(str) /\ len = 0
        /\ Len(tx.data) >= tx.len
        /\ SubSeq(tx.data, 1, tx.len) = str)
  /\ pc = "tx_ret" => (ntrans = 1 /\ (ret <=> ~EchoCorrupted(rx, 25)))
  /\ (pc = "loop" /\ outcome = "info_ok") =>
       (result /\ drv = "idle" /\ tx = lastTx /\ lastTx.cmd = 25 /\ rxKind = "echo")

\* C22 witness: the status string of a device running from its factory partition
\* was answered in one chunk whose echo matched
SingleChunkWitness ==
  /\ pc = "tx_ret" /\ ret /\ ntrans = 1 /\ rxKind = "echo"
  /\ Len(str) = 56 /\ tx.len = 56 /\ table[running] = 0

\* C23: the calls made to the co-processor and to unlink form, in this order:
\* one begin, the writes, one end, at most one unlink, at most one activate.
\* Nothing follows a failed begin, write or end. The writes cover the file from
\* offset 0 on without gap or overlap. An unlink follows a successful end at
\* once and only with delete_after_use set. An activate has a successful begin,
\* only successful writes and a successful end before it.
SdOtaOrdering ==
  LET c == ota_calls
      n == Len(ota_calls)
  IN /\ \A i \in 1..n :
          (c[i].op \in {"begin", "write", "end"} /\ ~c[i].ok) => i = n
     /\ \A i \in 1..n : (c[i].op = "begin") <=> (i = 1)
     /\ \A i \in 2..n :
          /\ c[i].op = "write" =>
               /\ c[i].n > 0 /\ c[i].off + c[i].n <= fsize
               /\ \/ c[i - 1].op = "begin" /\ c[i].off = 0
                  \/ c[i - 1].op = "write" /\ c[i].off = c[i - 1].off + c[i - 1].n
          /\ c[i].op = "end" => c[i - 1].op \in {"begin", "write"}
          /\ c[i].op = "unlink" => (delete_after_use /\ c[i - 1].op = "end" /\ c[i - 1].ok)
          /\ c[i].op = "activate" =>
               /\ i = n
               /\ c[1].ok
               /\ \E e \in 2..(i - 1) :
                    /\ c[e].op = "end" /\ c[e].ok
                    /\ \A w \in 2..(e - 1) : c[w].op = "write" /\ c[w].ok
                    /\ \A u \in (e + 1)..(i - 1) : c[u].op = "unlink" /\ u = e + 1

\* C23 witness: a file of two full chunks and one byte was written in three
\* chunks, the update ended, the file was deleted and the new firmware activated
SdOtaWitness ==
  /\ ota_pc = "exit" /\ fsize = 2 * 1500 + 1 /\ delete_after_use
  /\ Len(ota_calls) = 7
  /\ ota_calls[5].op = "end" /\ ota_calls[6].op = "unlink" /\ ota_calls[7].op = "activate"
  /\ ota_calls[4].off = 3000 /\ ota_calls[4].n = 1

\* what holds of a wrapper call on the slow path, and of the bounce buffer
SdSlowOk ==
  /\ sd_allocs <= 1
  /\ (sector_buffer = "allocated") <=> (sd_allocs = 1)
  /\ (block_count = 0 /\ sd_pc = "returned") =>
       (sd_err = "ESP_OK" /\ sd_log = <<>> /\ sd_copied = <<>>)
  /\ (sd_pc \in {"loop", "returned"} /\ block_count > 0 /\ ~is_aligned) =>
       LET n == Len(sd_log)
           nOk == IF n > 0 /\ sd_log[n].err # "ESP_OK" THEN n - 1 ELSE n
       IN /\ n <= block_count
          /\ n > 0 => sector_buffer = "allocated"
          /\ \A k \in 1..n :
               /\ sd_log[k].op = sd_op
               /\ sd_log[k].block = start_block + k - 1
               /\ sd_log[k].count = 1
               /\ sd_log[k].buf = "sector_buffer"
          /\ \A k \in 1..(n - 1) : sd_log[k].err = "ESP_OK"
          /\ sd_op = "read" => sd_copied = [k \in 1..nOk |-> k - 1]
          /\ sd_op = "write" => sd_copied = [k \in 1..n |-> k - 1]
          /\ sd_pc = "returned" =>
               IF n = 0
               THEN sd_err = "ESP_ERR_NO_MEM" /\ sector_buffer = "NULL"
               ELSE /\ sd_err = sd_log[n].err
                    /\ sd_err = "ESP_OK" => n = block_count

\* C24: on the slow path the blocks start_block, start_block + 1, ... are
\* transferred in this order, one block per DMA call, through sector_buffer; a
\* failed block is the last one transferred, its error is the value returned,
\* and a read copies to dst exactly the blocks read before it; a call with
\* block_count = 0 returns ESP_OK with no DMA call and no allocation; and the
\* buffer is allocated at most once, on a slow-path call that finds it NULL.
SdSlowPath ==
  [][/\ SdSlowOk'
     /\ (sd_pc = "entry" /\ block_count = 0) =>
          (sd_pc' = "returned" /\ sector_buffer' = sector_buffer /\ sd_allocs' = sd_allocs)
     /\ (sd_allocs' # sd_allocs \/ sector_buffer' # sector_buffer) =>
          (/\ sector_buffer = "NULL" /\ sd_allocs = 0 /\ sd_allocs' = 1
           /\ block_count > 0 /\ ~is_aligned)]_vars

\* C24 witness: the second call, a read of three blocks into a buffer not fit
\* for DMA, failed on its second block with the bounce buffer of the first call
SdSlowPathWitness ==
  /\ sd_pc = "returned" /\ sd_op = "read" /\ ~is_aligned
  /\ sd_ncalls = 2 /\ sd_allocs = 1
  /\ block_count = 3 /\ start_block = 7
  /\ Len(sd_log) = 2 /\ sd_log[2].block = 8 /\ sd_log[2].err = "ESP_ERR_TIMEOUT"
  /\ sd_err = "ESP_ERR_TIMEOUT" /\ sd_copied = <<0>>

====
